---- MODULE Spec2Model ----
(***************************************************************************)
(* Model of the python-data-extract utilities.                             *)
(*                                                                         *)
(*   dataExtract.py  the segmented-table reshaper: a script whose body is  *)
(*                   one loop over the *.csv files of the directory        *)
(*                   (loader, segment scan, global header, record mapping, *)
(*                   output).                                              *)
(*   clean_csvs.py   the row-dropping cleaner (clean_one_file).            *)
(*                                                                         *)
(* Spec      is the reshaper, SpecClean the cleaner.                       *)
(***************************************************************************)
EXTENDS Integers, Sequences, FiniteSets, TLC

\* ---------------------------------------------------------------- bounds
\* Files glob("*.csv") matches in the directory.
NumFiles == 2
\* Rows of one input file.
MaxRows == 4
\* Cells of the widest row of a file.
MaxCols == 2
\* Data rows collected into one segment.
MaxSegRows == 1
\* Physical lines of the file clean_one_file cleans.
MaxLines == 3
\* Characters of one physical line, its terminator apart.
MaxLineLen == 3

\* ------------------------------------------------------------ the values
\* "公司名称" (company name), the synthetic group-label column appended at
\* dataExtract.py:71 and written at dataExtract.py:87.
COMPANY_COL == "company_name"
\* pd.NA, the missing cell (dataExtract.py:22).
NA == "<NA>"
\* Python's None as a dict value (dataExtract.py:81).
PyNone == "<None>"
\* An optional value: None is <<>>, a bound value v is <<v>>
\* (current_company, current_header: dataExtract.py:31-32).
None == <<>>
Some(v) == <<v>>

\* The characters input cells are made of; a raw cell is a sequence of them.
RawCells ==
    { <<" ">>, <<" ", "A", " ">>, <<COMPANY_COL>> }

\* The rows csv.reader can yield for a file whose widest row has w cells
\* (a blank line yields the empty row).  The scan loop is given the rows of
\* df one at a time; every sequence of rows of width w is the df of some
\* file (the one that spells out its empty cells), so the rows are drawn
\* as the loop reaches them.
RawRows(w) == UNION { [1..n -> RawCells] : n \in 0..w }

\* ---------------------------------------------------------------- loader
RECURSIVE lstrip(_)
lstrip(s) == IF s # <<>> /\ s[1] = " " THEN lstrip(Tail(s)) ELSE s

RECURSIVE rstrip(_)
rstrip(s) ==
    IF s # <<>> /\ s[Len(s)] = " " THEN rstrip(SubSeq(s, 1, Len(s) - 1)) ELSE s

\* str.strip()
strip(s) == rstrip(lstrip(s))

\* The text of a sequence of characters.
RECURSIVE Join(_)
Join(s) == IF s = <<>> THEN "" ELSE s[1] \o Join(Tail(s))

\* dataExtract.py:13  rows.append([cell.strip() for cell in r])
StripRow(r) == [k \in 1..Len(r) |-> Join(strip(r[k]))]

\* dataExtract.py:19  r + [""] * (max_cols - len(r))
Pad(r, w) == [k \in 1..w |-> IF k <= Len(r) THEN r[k] ELSE ""]

\* dataExtract.py:22  df.replace({"": pd.NA})
ReplaceNA(r) == [k \in 1..Len(r) |-> IF r[k] = "" THEN NA ELSE r[k]]

\* One row of the DataFrame read_csv_loose returns, from the row csv.reader
\* yielded, max_cols being the length of the file's widest row.
LoadRow(r, w) == ReplaceNA(Pad(StripRow(r), w))

\* ----------------------------------------------------------------- state
VARIABLES
    nfiles,           \* number of files glob("*.csv") matched
    file,             \* 1-based index of the file of the current iteration
    pc,               \* "loop" | "scan" | "crashed"
    max_cols,         \* width of df (0 for pd.DataFrame())
    i,                \* rows of df the scan loop has consumed
    values,           \* row.tolist() of the last row consumed
    current_company,
    current_header,
    current_rows,
    segments,
    global_headers,   \* the set of dataExtract.py:43
    columns,          \* global_headers once it is a list (dataExtract.py:70)
    records,
    written,          \* files whose .xlsx was written
    failed,           \* files whose processing raised
    \* clean_csvs.py, clean_one_file
    cpc,              \* "off" | "read" | "have" | "closed"
    csv_nul_error,    \* the csv module raises on a NUL (it does before 3.11)
    drop_prefix,
    line_number,
    line,             \* the physical line just read, without its terminator
    drop,
    reason,
    kept,
    dropped,
    fout              \* the lines written to the temporary file: the number
                      \* of each, and whether it went out as the line it was
                      \* or as a csv row (the cells written are not modelled)

vars ==
    << nfiles, file, pc, max_cols, i, values, current_company, current_header,
       current_rows, segments, global_headers, columns, records, written,
       failed, cpc, csv_nul_error, drop_prefix, line_number, line, drop, reason, kept,
       dropped, fout >>

reshaperVars ==
    << nfiles, file, pc, max_cols, i, values, current_company, current_header,
       current_rows, segments, global_headers, columns, records, written,
       failed >>

cleanerVars ==
    << cpc, csv_nul_error, drop_prefix, line_number, line, drop, reason, kept,
       dropped, fout >>

\* ------------------------------------------------------- segment scanner
\* row.count(): the number of non-missing cells.
count(vals) == Cardinality({k \in DOMAIN vals : vals[k] # NA})

\* Truth value of an optional string (current_company) and of an optional
\* list (current_header): None, "" and [] are false.
TruthyStr(opt) == opt # None /\ opt[1] # ""
TruthyList(opt) == opt # None /\ opt[1] # <<>>

\* dataExtract.py:49  pd.notna(values[0]) and row.count() == 1
IsGroupRowLastCol(vals) == vals[Len(vals)] # NA /\ count(vals) = 1
IsGroupRow(vals) == vals[1] # NA /\ count(vals) = 1

\* dataExtract.py:35-41  flush_segment: the segment list after the call.
FlushAlways(segs, company, header, rows) ==
    IF company # None /\ header # None
    THEN Append(segs, [company |-> company[1], header |-> header[1], rows |-> rows])
    ELSE segs
flush_segment(segs, company, header, rows) ==
    IF TruthyStr(company) /\ TruthyList(header) /\ rows # <<>>
    THEN Append(segs, [company |-> company[1], header |-> header[1], rows |-> rows])
    ELSE segs

\* dataExtract.py:58  the header row: missing cells become "".
HeaderOf(vals) == [k \in 1..Len(vals) |-> IF vals[k] # NA THEN vals[k] ELSE ""]

\* dataExtract.py:59  [h for h in current_header if h]
HeaderNames(header) == {header[k] : k \in {j \in DOMAIN header : header[j] # ""}}

\* ---------------------------------------------------------- header unifier
\* list(set): the elements of S in an order the hash seed decides.
Orders(S) ==
    {s \in [1..Cardinality(S) -> S] : \A a, b \in DOMAIN s : a # b => s[a] # s[b]}

\* dataExtract.py:70-71
GlobalHeaderLists(S) == {Append(o, COMPANY_COL) : o \in Orders(S)}

\* ----------------------------------------------------------- record mapper
Range(s) == {s[k] : k \in DOMAIN s}

\* rec[key] = v on a dict
DictSet(rec, key, v) ==
    [c \in DOMAIN rec \cup {key} |-> IF c = key THEN v ELSE rec[c]]

\* dataExtract.py:83-85  the loop over enumerate(r), from 1-based position idx.
RECURSIVE MapCellsAnyHeader(_, _, _, _)
MapCellsAnyHeader(rec, header, r, idx) ==
    IF idx > Len(r) THEN rec
    ELSE MapCellsAnyHeader(IF idx <= Len(header)
                           THEN DictSet(rec, header[idx], r[idx])
                           ELSE rec,
                           header, r, idx + 1)

RECURSIVE MapCells(_, _, _, _)
MapCells(rec, header, r, idx) ==
    IF idx > Len(r) THEN rec
    ELSE MapCells(IF idx <= Len(header) /\ header[idx] # ""
                  THEN DictSet(rec, header[idx], r[idx])
                  ELSE rec,
                  header, r, idx + 1)

\* dataExtract.py:81-87  the record of one data row.
RecordNoStamp(cols, header, company, r) ==
    MapCells([h \in Range(cols) |-> PyNone], header, r, 1)
Record(cols, header, company, r) ==
    DictSet(MapCells([h \in Range(cols) |-> PyNone], header, r, 1),
            COMPANY_COL, company)

\* dataExtract.py:76-88  the records of the segments from position s on.
RECURSIVE Records(_, _, _)
Records(cols, segs, s) ==
    IF s > Len(segs) THEN <<>>
    ELSE [k \in 1..Len(segs[s].rows) |->
             Record(cols, segs[s].header, segs[s].company, segs[s].rows[k])]
         \o Records(cols, segs, s + 1)

\* --------------------------------------------------------------- reshaper
CleanerOff ==
    /\ cpc = "off"
    /\ csv_nul_error = FALSE
    /\ drop_prefix = <<>>
    /\ line_number = 0
    /\ line = <<>>
    /\ drop = FALSE
    /\ reason = ""
    /\ kept = 0
    /\ dropped = 0
    /\ fout = <<>>

\* The state before the loop of dataExtract.py:24 starts, in a directory of n
\* CSV files.
InitFiles(n) ==
    /\ nfiles = n
    /\ file = 0
    /\ pc = "loop"
    /\ max_cols = 0
    /\ i = 0
    /\ values = <<>>
    /\ current_company = None
    /\ current_header = None
    /\ current_rows = <<>>
    /\ segments = <<>>
    /\ global_headers = {}
    /\ columns = <<>>
    /\ records = <<>>
    /\ written = {}
    /\ failed = {}
    /\ CleanerOff

\* dataExtract.py:24-43  the top of the loop body: the file is read and the
\* per-file names are rebound.  w is the length of the widest row of the file
\* (0 for a file of blank lines, and for an empty file).  columns and records
\* are rebound at lines 70 and 73 before anything reads them again, so they
\* are cleared here.
StartFile ==
    /\ pc = "loop"
    /\ file < nfiles
    /\ file' = file + 1
    /\ \E w \in 0..MaxCols : max_cols' = w
    /\ pc' = "scan"
    /\ i' = 0
    /\ values' = <<>>
    /\ current_company' = None
    /\ current_header' = None
    /\ current_rows' = <<>>
    /\ segments' = <<>>
    /\ global_headers' = {}
    /\ columns' = <<>>
    /\ records' = <<>>
    /\ UNCHANGED << nfiles, written, failed >>
    /\ UNCHANGED cleanerVars

\* dataExtract.py:45-64  one iteration of the scan loop on the next row of df.
\* values[0] of a row without cells raises IndexError, which nothing catches:
\* the script ends.
ScanRow ==
    /\ pc = "scan"
    /\ i < MaxRows
    /\ \E r \in RawRows(max_cols) :
         LET vals == LoadRow(r, max_cols) IN
         /\ values' = vals
         /\ i' = i + 1
         /\ IF Len(vals) = 0
            THEN /\ pc' = "crashed"
                 /\ failed' = failed \cup {file}
                 /\ UNCHANGED << current_company, current_header, current_rows,
                                 segments, global_headers >>
            ELSE /\ pc' = "scan"
                 /\ failed' = failed
                 /\ IF IsGroupRow(vals)
                    THEN /\ segments' = flush_segment(segments, current_company,
                                                      current_header, current_rows)
                         /\ current_company' = Some(vals[1])
                         /\ current_header' = None
                         /\ current_rows' = <<>>
                         /\ UNCHANGED global_headers
                    ELSE IF TruthyStr(current_company) /\ current_header = None
                            /\ count(vals) > 0
                    THEN /\ current_header' = Some(HeaderOf(vals))
                         /\ global_headers' =
                              global_headers \cup HeaderNames(HeaderOf(vals))
                         /\ UNCHANGED << current_company, current_rows, segments >>
                    ELSE IF TruthyStr(current_company) /\ TruthyList(current_header)
                            /\ count(vals) > 0
                    THEN /\ current_rows' = Append(current_rows, vals)
                         /\ Len(current_rows') <= MaxSegRows
                         /\ UNCHANGED << current_company, current_header,
                                         segments, global_headers >>
                    ELSE UNCHANGED << current_company, current_header,
                                      current_rows, segments, global_headers >>
    /\ UNCHANGED << nfiles, file, max_cols, columns, records, written >>
    /\ UNCHANGED cleanerVars

\* dataExtract.py:67-93  after the last row: the last segment is flushed, the
\* global header list built, the records mapped and the .xlsx written.
\* A DataFrame with rows has a widest row, pd.DataFrame() has none.
EndOfGrid ==
    /\ pc = "scan"
    /\ i > 0 \/ max_cols = 0
    /\ LET segs == flush_segment(segments, current_company, current_header,
                                 current_rows) IN
       /\ segments' = segs
       /\ \E cols \in GlobalHeaderLists(global_headers) :
            /\ columns' = cols
            /\ records' = Records(cols, segs, 1)
    /\ written' = written \cup {file}
    /\ pc' = "loop"
    /\ UNCHANGED << nfiles, file, max_cols, i, values, current_company,
                    current_header, current_rows, global_headers, failed >>
    /\ UNCHANGED cleanerVars

Next == StartFile \/ ScanRow \/ EndOfGrid

\* The script run on one CSV file: every name the loop body reads is rebound
\* at the top of the body, so one iteration is every iteration.
Init == InitFiles(1)
Spec == Init /\ [][Next]_vars

\* The script run on a directory of NumFiles CSV files.
InitBatch == InitFiles(NumFiles)
SpecBatch == InitBatch /\ [][Next]_vars

\* ----------------------------------------------------- clean_csvs.py
\* The characters of a physical line; NUL stands for "\0".
NUL == "NUL"
LineChars == {",", "\"", " ", "=", "p", "a", NUL}

\* The physical lines of the input, without their terminators.
Lines == UNION { [1..n -> LineChars] : n \in 0..MaxLineLen }

\* The values of --prefix.
Prefixes == { <<"p">>, <<"p", "a">> }

\* str.startswith
startswith(s, prefix) ==
    Len(prefix) <= Len(s) /\ SubSeq(s, 1, Len(prefix)) = prefix

\* csv.reader on one line (delimiter ",", quotechar '"', doublequote, not
\* strict), from position k on: st is the parser's state, field the field
\* in progress, fields the fields saved.  The end of the line saves the field
\* in progress; the line's terminator, which a field left open in quotes
\* would keep, is white space at the end of the last cell, and every use of
\* the cells strips it.
RECURSIVE CsvFields(_, _, _, _, _)
CsvFields(l, k, st, field, fields) ==
    IF k > Len(l)
    THEN IF st = "START_RECORD" THEN fields ELSE Append(fields, field)
    ELSE LET c == l[k] IN
         CASE st \in {"START_RECORD", "START_FIELD"} ->
                IF c = "\"" THEN CsvFields(l, k + 1, "IN_QUOTED_FIELD", <<>>, fields)
                ELSE IF c = ","
                THEN CsvFields(l, k + 1, "START_FIELD", <<>>, Append(fields, <<>>))
                ELSE CsvFields(l, k + 1, "IN_FIELD", <<c>>, fields)
           [] st = "IN_FIELD" ->
                IF c = ","
                THEN CsvFields(l, k + 1, "START_FIELD", <<>>, Append(fields, field))
                ELSE CsvFields(l, k + 1, "IN_FIELD", Append(field, c), fields)
           [] st = "IN_QUOTED_FIELD" ->
                IF c = "\""
                THEN CsvFields(l, k + 1, "QUOTE_IN_QUOTED_FIELD", field, fields)
                ELSE CsvFields(l, k + 1, "IN_QUOTED_FIELD", Append(field, c), fields)
           [] OTHER ->
                IF c = "\""
                THEN CsvFields(l, k + 1, "IN_QUOTED_FIELD", Append(field, c), fields)
                ELSE IF c = ","
                THEN CsvFields(l, k + 1, "START_FIELD", <<>>, Append(fields, field))
                ELSE CsvFields(l, k + 1, "IN_FIELD", Append(field, c), fields)

\* clean_csvs.py:50-60  _parse_csv_line: Some(cells), or None when the csv
\* module raises, which it does on a line that holds a NUL where
\* csv_nul_error.
_parse_csv_line(l) ==
    IF csv_nul_error /\ \E k \in DOMAIN l : l[k] = NUL
    THEN None
    ELSE Some(CsvFields(l, 1, "START_RECORD", <<>>, <<>>))

\* clean_csvs.py:12-25
_normalize_cell(cell) ==
    LET v1 == strip(cell)
        v2 == IF startswith(v1, <<"=">>) THEN lstrip(Tail(v1)) ELSE v1
        v3 == IF Len(v2) >= 2 /\ v2[1] = "\"" /\ v2[Len(v2)] = "\""
              THEN SubSeq(v2, 2, Len(v2) - 1)
              ELSE v2
    IN strip(v3)

\* clean_csvs.py:63-67
_row_is_effectively_empty(cells) ==
    \A k \in DOMAIN cells : _normalize_cell(cells[k]) = <<>>

\* clean_csvs.py:70-75  from position k on
RECURSIVE FirstNonempty(_, _)
FirstNonempty(cells, k) ==
    IF k > Len(cells) THEN <<>>
    ELSE IF _normalize_cell(cells[k]) # <<>> THEN _normalize_cell(cells[k])
    ELSE FirstNonempty(cells, k + 1)

_first_nonempty_cell(cells) == FirstNonempty(cells, 1)

\* clean_csvs.py:78-95  (drop?, reason)
ShouldDropUnparsed(l, prefix) ==
    IF strip(l) = <<>> THEN [drop |-> TRUE, reason |-> "blank-line"]
    ELSE LET cells == _parse_csv_line(l) IN
         IF cells = None THEN [drop |-> TRUE, reason |-> "unparsed"]
         ELSE IF _row_is_effectively_empty(cells[1])
         THEN [drop |-> TRUE, reason |-> "empty-row"]
         ELSE IF startswith(_first_nonempty_cell(cells[1]), prefix)
         THEN [drop |-> TRUE, reason |-> "prefix"]
         ELSE [drop |-> FALSE, reason |-> "keep"]
_should_drop_line(l, prefix) ==
    IF strip(l) = <<>> THEN [drop |-> TRUE, reason |-> "blank-line"]
    ELSE LET cells == _parse_csv_line(l) IN
         IF cells = None THEN [drop |-> FALSE, reason |-> "unparsed"]
         ELSE IF _row_is_effectively_empty(cells[1])
         THEN [drop |-> TRUE, reason |-> "empty-row"]
         ELSE IF startswith(_first_nonempty_cell(cells[1]), prefix)
         THEN [drop |-> TRUE, reason |-> "prefix"]
         ELSE [drop |-> FALSE, reason |-> "keep"]

ReshaperOff ==
    /\ nfiles = 0
    /\ file = 0
    /\ pc = "off"
    /\ max_cols = 0
    /\ i = 0
    /\ values = <<>>
    /\ current_company = None
    /\ current_header = None
    /\ current_rows = <<>>
    /\ segments = <<>>
    /\ global_headers = {}
    /\ columns = <<>>
    /\ records = <<>>
    /\ written = {}
    /\ failed = {}

\* clean_csvs.py:115-122  clean_one_file with both files open.
InitClean ==
    /\ ReshaperOff
    /\ cpc = "read"
    /\ csv_nul_error \in BOOLEAN
    /\ drop_prefix \in Prefixes
    /\ line_number = 0
    /\ line = <<>>
    /\ drop = FALSE
    /\ reason = ""
    /\ kept = 0
    /\ dropped = 0
    /\ fout = <<>>

\* clean_csvs.py:124  the loop takes the next physical line of the input.
ReadLine ==
    /\ cpc = "read"
    /\ line_number < MaxLines
    /\ \E l \in Lines : line' = l
    /\ line_number' = line_number + 1
    /\ cpc' = "have"
    /\ UNCHANGED << csv_nul_error, drop_prefix, drop, reason, kept, dropped, fout >>
    /\ UNCHANGED reshaperVars

\* clean_csvs.py:125-140  the body of the loop on that line.  A kept line
\* is written as it is when it cannot be parsed, and as a csv row otherwise.
\* line is rebound by the next iteration before it is read again: the model
\* forgets it here.
ProcessLine ==
    /\ cpc = "have"
    /\ cpc' = "read"
    /\ line' = <<>>
    /\ IF line_number = 1
       THEN /\ dropped' = dropped + 1
            /\ UNCHANGED << drop, reason, kept, fout >>
       ELSE LET d == _should_drop_line(line, drop_prefix) IN
            /\ drop' = d.drop
            /\ reason' = d.reason
            /\ IF d.drop
               THEN /\ dropped' = dropped + 1
                    /\ UNCHANGED << kept, fout >>
               ELSE /\ fout' = Append(fout,
                          [no |-> line_number,
                           as |-> IF _parse_csv_line(line) = None
                                  THEN "line" ELSE "row"])
                    /\ kept' = kept + 1
                    /\ UNCHANGED dropped
    /\ UNCHANGED << csv_nul_error, drop_prefix, line_number >>
    /\ UNCHANGED reshaperVars

\* clean_csvs.py:142-143  the input is exhausted: the temporary file replaces
\* the input, and (kept, dropped) is returned.
CloseFiles ==
    /\ cpc = "read"
    /\ cpc' = "closed"
    /\ UNCHANGED << csv_nul_error, drop_prefix, line_number, line, drop, reason,
                    kept, dropped, fout >>
    /\ UNCHANGED reshaperVars

NextClean == ReadLine \/ ProcessLine \/ CloseFiles

SpecClean == InitClean /\ [][NextClean]_vars

\* ------------------------------------------------- claim on the cleaner
\* The cells of a line the csv module parses.
Cells(l) == _parse_csv_line(l)[1]

\* The positions of the cells of l that are not empty once normalized.
Populated(l) == {k \in DOMAIN Cells(l) : _normalize_cell(Cells(l)[k]) # <<>>}

\* The lines the cleaner is to drop after the first: blank, or parsed with
\* every cell empty, or parsed with the first populated cell starting with
\* the prefix.
ToDrop(l, prefix) ==
    \/ \A k \in DOMAIN l : l[k] = " "
    \/ /\ _parse_csv_line(l) # None
       /\ \/ Populated(l) = {}
          \/ LET first == CHOOSE k \in Populated(l) :
                              \A j \in Populated(l) : k <= j
             IN startswith(_normalize_cell(Cells(l)[first]), prefix)

\* C10: clean_one_file drops physical line 1 and every later line that is
\* blank, all empty after normalization, or whose first non-empty normalized
\* cell starts with the prefix; it keeps every other line, unparseable ones
\* included, in the original order; kept and dropped sum to the number of
\* physical lines.
C10_CleanerDrops ==
    [][(cpc = "have" /\ cpc' = "read") =>
          /\ IF line_number = 1 \/ ToDrop(line, drop_prefix)
             THEN dropped' = dropped + 1 /\ kept' = kept /\ fout' = fout
             ELSE /\ dropped' = dropped /\ kept' = kept + 1
                  /\ Len(fout') = Len(fout) + 1
                  /\ SubSeq(fout', 1, Len(fout)) = fout
                  /\ fout'[Len(fout')].no = line_number
          /\ kept' + dropped' = line_number]_vars

\* The file was cleaned: line 1 and a later line were dropped, and a line
\* that cannot be parsed was kept as it is.
C10_Witness ==
    /\ cpc = "closed"
    /\ reason = "unparsed"
    /\ dropped = 2
    /\ kept = 1
    /\ fout = << [no |-> 3, as |-> "line"] >>

\* ------------------------------------------------- claims on the reshaper
\* The state right after the file's output was written.
FileDone == pc = "loop" /\ file >= 1

\* The script has ended: on the uncaught exception, or past the last file.
Terminated == pc = "crashed" \/ (pc = "loop" /\ file = nfiles)

\* One iteration of the scan loop that classified a row.
ScanStep == pc = "scan" /\ pc' = "scan" /\ i' = i + 1

\* The only non-missing cell of a row that has exactly one.
TheCell(vals) == vals[CHOOSE k \in DOMAIN vals : vals[k] # NA]

\* The segment list once the segment in progress is sealed: it is emitted
\* when it has a header and a data row, and dropped otherwise.
Sealed ==
    IF current_company # None /\ current_header # None /\ Len(current_rows) >= 1
    THEN Append(segments, [company |-> current_company[1],
                           header |-> current_header[1],
                           rows |-> current_rows])
    ELSE segments

\* What a group-label row does: it seals the segment in progress and starts a
\* segment labelled by its cell; it is neither a header nor a data row.
GroupRowEffect ==
    /\ segments' = Sealed
    /\ current_company' = Some(TheCell(values'))
    /\ current_header' = None
    /\ current_rows' = <<>>

\* What any other row with a non-missing cell does: the header of a segment
\* that has none, a data row of a segment that has one, nothing before the
\* first group label.
PlainRowEffect ==
    /\ segments' = segments
    /\ current_company' = current_company
    /\ IF current_company = None
       THEN current_header' = current_header /\ current_rows' = current_rows
       ELSE IF current_header = None
       THEN current_header' = Some(HeaderOf(values')) /\ current_rows' = current_rows
       ELSE current_header' = current_header
            /\ current_rows' = Append(current_rows, values')

\* C1 as stated: in every scanner state a row with exactly one non-missing
\* cell, whatever its column, is a group-label row: it seals the segment in
\* progress, starts a segment labelled by that cell, and is neither captured
\* as a header nor appended as a data row.
C1_GroupRowAnyColumn ==
    [][(ScanStep /\ count(values') = 1) => GroupRowEffect]_vars

\* C1 amended: in every scanner state a row with exactly one non-missing cell
\* is a group-label row when that cell is in the first column; when the cell
\* is in a later column the row is an ordinary row (the header of a segment
\* without one, else a data row, and nothing before the first group label).
C1_GroupRowFirstColumn ==
    [][(ScanStep /\ count(values') = 1) =>
          IF values'[1] # NA THEN GroupRowEffect ELSE PlainRowEffect]_vars

\* A group-label row met while collecting data sealed a complete segment.
C1_Witness ==
    /\ pc = "scan"
    /\ count(values) = 1
    /\ values[1] # NA
    /\ Len(values) >= 2
    /\ Len(segments) = 1
    /\ current_company = Some(values[1])
    /\ current_header = None

\* C2: every segment of the segment list has a group label, a header with
\* at least one non-missing cell and at least one data row; an incomplete
\* segment never enters the list.
C2_SegmentCompleteness ==
    \A s \in DOMAIN segments :
        /\ segments[s].company # ""
        /\ \E k \in DOMAIN segments[s].header : segments[s].header[k] # ""
        /\ Len(segments[s].rows) >= 1

\* The grid ended with one complete segment emitted and one label-only
\* segment dropped.
C2_Witness ==
    /\ FileDone
    /\ Len(segments) = 1
    /\ current_company # None
    /\ current_header = None

\* C3: whatever the file holds, the loader and the scan loop end with a
\* segment list and never in an error.
C3_NoThrow == pc # "crashed"

\* The number of positions of cols holding c.
Occurrences(cols, c) == Cardinality({k \in DOMAIN cols : cols[k] = c})

\* C4: the global column list holds no name twice, and the group-label
\* column exactly once, in the last position.
C4_SchemaUnique ==
    FileDone =>
        /\ \A k \in DOMAIN columns : Occurrences(columns, columns[k]) = 1
        /\ columns[Len(columns)] = COMPANY_COL

\* The header names of the emitted segments.
EmittedNames == UNION {HeaderNames(segments[s].header) : s \in DOMAIN segments}

\* The columns before the appended group-label column.
HeaderColumns == SubSeq(columns, 1, Len(columns) - 1)

\* C5: the columns other than the appended group-label column are exactly
\* the non-missing header cells of the emitted segments; the header of a
\* discarded segment adds no column.
C5_SchemaContent == FileDone => Range(HeaderColumns) = EmittedNames

\* The data rows of the emitted segments in output order, each with the
\* header and the group label of its segment.
RECURSIVE DataRows(_, _)
DataRows(segs, s) ==
    IF s > Len(segs) THEN <<>>
    ELSE [k \in 1..Len(segs[s].rows) |->
             [company |-> segs[s].company, header |-> segs[s].header,
              row |-> segs[s].rows[k]]]
         \o DataRows(segs, s + 1)

\* C6: every output record carries, in the group-label column, the group
\* label of the segment its data row belongs to, never a missing value, also
\* when the segment's header names a column like the group-label column.
C6_MappingSoundness ==
    FileDone =>
        LET rows == DataRows(segments, 1) IN
        /\ Len(records) = Len(rows)
        /\ \A n \in DOMAIN records :
              /\ records[n][COMPANY_COL] = rows[n].company
              /\ records[n][COMPANY_COL] \notin {NA, PyNone, ""}

\* A record whose segment has a header cell named like the group-label
\* column, over a data cell that differs from the group label.
C6_Witness ==
    /\ FileDone
    /\ records # <<>>
    /\ \E k \in DOMAIN segments[1].header :
          /\ segments[1].header[k] = COMPANY_COL
          /\ segments[1].rows[1][k] # segments[1].company

RECURSIVE FirstAppearance(_, _, _, _)
FirstAppearance(segs, s, k, seen) ==
    IF s > Len(segs) THEN <<>>
    ELSE IF k > Len(segs[s].header) THEN FirstAppearance(segs, s + 1, 1, seen)
    ELSE LET h == segs[s].header[k] IN
         IF h = "" \/ h \in seen THEN FirstAppearance(segs, s, k + 1, seen)
         ELSE <<h>> \o FirstAppearance(segs, s, k + 1, seen \cup {h})

\* C8: the columns are listed in order of first appearance of each header
\* name (segments in scan order, left to right within a header), followed by
\* the group-label column.  Stated where every captured header belongs to an
\* emitted segment, so that only the order is in question.
C8_SchemaOrder ==
    (FileDone /\ global_headers = EmittedNames) =>
        columns = Append(FirstAppearance(segments, 1, 1, {}), COMPANY_COL)

\* C9: when the processing of one file fails, every other file of the batch
\* is still processed and its output written.
C9_BatchIsolation ==
    Terminated => \A f \in 1..nfiles : f \in written \/ f \in failed

====
